---- MODULE Spec2Model ----
(***************************************************************************)
(* Subfunction (SF) activation / deactivation of the ice driver:           *)
(* drivers/net/ethernet/intel/ice/ice_sf_eth.c.                            *)
(*                                                                         *)
(* State: the global id allocator ice_sf_aux_id, the ice_sf_dev records    *)
(* (one per kzalloc), and per dynamic port its VSI, its sf_dev pointer,    *)
(* its active flag and the position of the call running on it.            *)
(*                                                                         *)
(* Calls on different ports interleave; only the steps that touch the      *)
(* shared allocator, the record's memory, or whose order a property is     *)
(* about are separate steps.  The device model's release callback          *)
(* (ice_sf_dev_release) is its own asynchronous action.                    *)
(***************************************************************************)
EXTENDS Integers, Sequences, FiniteSets, TLC

\* ---------------------------------------------------------------- bounds
NumPorts == 2      \* dynamic ports
MaxId    == 2      \* size of the id pool (xa_limit_32b in the code)
MaxRec   == 3      \* ice_sf_dev records ever allocated in one run, ports in parallel
MaxSeqRec == 2     \* the same, in the runs of one port with every fault

Ports == 1..NumPorts
Ids   == 1..MaxId
NULL  == 0

VARIABLES
    xa,        \* ice_sf_aux_id: the set of reserved ids
    rec,       \* sequence of ice_sf_dev records, index = pointer value
    vsi,       \* dyn_port->vsi, per port
    sf_dev,    \* dyn_port->sf_dev, per port (NULL or index into rec)
    active,    \* dyn_port->active, per port
    pc,        \* per port: position of the call in flight ("idle" = none)
    loc,       \* per port: locals of ice_sf_eth_activate (id, sf_dev, err)
    last       \* per port: the last completed call, its injected fault, its result

vars == <<xa, rec, vsi, sf_dev, active, pc, loc, last>>

\* ------------------------------------------------------------ data model

\* struct ice_vsi, the fields the SF code reads or writes
VsiInit ==
    [cfg        |-> FALSE,    \* ice_vsi_cfg done, ice_vsi_decfg not yet
     netdev     |-> FALSE,    \* vsi->netdev != NULL
     nd         |-> "none",   \* the net_device object: none, alloc, reg
     allocd     |-> FALSE,    \* ICE_VSI_NETDEV_ALLOCD
     registered |-> FALSE,    \* ICE_VSI_NETDEV_REGISTERED
     fltr       |-> FALSE,    \* default MAC + broadcast filter installed
     napi       |-> FALSE]    \* ice_napi_add done

\* struct ice_sf_dev as kzalloc'ed and filled by ice_sf_eth_activate
NewRec(p, i) ==
    [port     |-> p,
     id       |-> i,          \* adev.id
     st       |-> "Allocated",\* Allocated, Initialized, Published, Unpublished
     pend     |-> FALSE,      \* uninit dropped the reference, release is due
     released |-> FALSE,      \* ice_sf_dev_release has run
     nDel     |-> 0,          \* times unpublished: auxiliary_device_delete, or
                              \* auxiliary_device_add undoing itself after a failed probe
     nUninit  |-> 0,          \* auxiliary_device_uninit calls
     nFree    |-> 0,          \* kfree(sf_dev) calls
     nErase   |-> 0,          \* xa_erase calls made for this record
     nDecfg   |-> 0,          \* ice_vsi_decfg calls made for this record
     addErr   |-> "OK",       \* the error auxiliary_device_add returned, if any
     calls    |-> << >>,      \* the registration-layer calls made on the record, in order
     devlink  |-> "none",     \* sf_dev->priv: none, registered, freed
     dlport   |-> "none"]     \* priv->devlink_port: none, reg, unreg, bad_unreg

\* locals of ice_sf_eth_activate; pre is the port's VSI as it was on entry
LocInit  == [id |-> 0, sf_dev |-> NULL, err |-> "OK", fault |-> "none", pre |-> VsiInit]
\* the last call that returned on a port: which, the fault injected, the value
\* returned, and the port's VSI as it was when the call was entered
LastInit == [op |-> "none", fault |-> "none", ret |-> "OK", pre |-> VsiInit]

\* what can be made to fail in ice_sf_eth_activate and in the probe it triggers
ProbeFaults == {"devlink_alloc", "vsi_cfg", "netdev_alloc", "netdev_register", "fltr"}
ActFaults   == {"none", "kzalloc", "init", "add"} \cup ProbeFaults
\* the faults that matter to the sharing of the allocator between ports
RaceFaults  == {"none", "add"}

Init ==
    /\ xa = {}
    /\ rec = << >>
    /\ vsi = [p \in Ports |-> VsiInit]
    /\ sf_dev = [p \in Ports |-> NULL]
    /\ active = [p \in Ports |-> FALSE]
    /\ pc = [p \in Ports |-> "idle"]
    /\ loc = [p \in Ports |-> LocInit]
    /\ last = [p \in Ports |-> LastInit]

\* ------------------------------------------------- external collaborators

\* xa_alloc on an ALLOC1 xarray: the smallest index >= 1 that is not in use,
\* 0 when the pool is exhausted (-EBUSY)
xa_alloc(x) ==
    IF Ids \subseteq x THEN 0
    ELSE CHOOSE i \in Ids \ x : \A j \in Ids \ x : i <= j

\* ice_vsi_cfg: configure the hardware resources of the port's VSI
ice_vsi_cfg(v) == [v EXCEPT !.cfg = TRUE]

\* ice_vsi_decfg: reclaim them (filters and q_vectors go with the VSI)
ice_vsi_decfg(v) == [v EXCEPT !.cfg = FALSE, !.fltr = FALSE, !.napi = FALSE]

\* ice_vsi_close: stop the VSI's queues and its poll servicing
ice_vsi_close(v) == [v EXCEPT !.napi = FALSE]

\* ----------------------------------------------------- ice_sf_cfg_netdev

\* ice_sf_cfg_netdev returning the error of register_netdev without
\* free_netdev and without clearing vsi->netdev.
ice_sf_cfg_netdev_no_free(v, f) ==
    IF f = "netdev_alloc"
    THEN [err |-> "ENOMEM", vsi |-> v]
    ELSE LET a == [v EXCEPT !.allocd = TRUE, !.netdev = TRUE, !.nd = "alloc"]
         IN  IF f = "netdev_register"
             THEN [err |-> "ENOMEM", vsi |-> a]
             ELSE [err |-> "OK",
                   vsi |-> [a EXCEPT !.nd = "reg", !.registered = TRUE]]

\* Allocate, configure and register a netdev.  f selects the step that fails.
ice_sf_cfg_netdev(v, f) ==
    IF f = "netdev_alloc"
    THEN [err |-> "ENOMEM", vsi |-> v]
    ELSE LET a == [v EXCEPT !.allocd = TRUE, !.netdev = TRUE, !.nd = "alloc"]
         IN  IF f = "netdev_register"
             THEN [err |-> "ENOMEM",
                   vsi |-> [a EXCEPT !.nd = "none", !.netdev = FALSE]]
             ELSE [err |-> "OK",
                   vsi |-> [a EXCEPT !.nd = "reg", !.registered = TRUE]]

\* ------------------------------------------------------ ice_sf_dev_probe

\* The probe of the auxiliary driver, run for record r on VSI v.
\* f selects the step that fails, pf makes ice_devlink_create_sf_dev_port fail.
\* Result: the error code, the VSI and the record as the probe leaves them.
ice_sf_dev_probe(v, r, f, pf) ==
    IF f = "devlink_alloc"
    THEN [err |-> "ENOMEM", vsi |-> v, rec |-> r]
    ELSE
    LET r1 == [r EXCEPT !.devlink = "registered"]
    IN  IF f = "vsi_cfg"
        THEN [err |-> "EVSICFG", vsi |-> v, rec |-> r1]
        ELSE
        LET v1 == ice_vsi_cfg(v)
            r2 == IF pf THEN r1 ELSE [r1 EXCEPT !.dlport = "reg"]
            n  == ice_sf_cfg_netdev(v1, f)
        IN  IF n.err # "OK"
            THEN [err |-> n.err,
                  vsi |-> ice_vsi_decfg(n.vsi),
                  rec |-> [r2 EXCEPT !.nDecfg = @ + 1]]
            ELSE
            LET err == IF f = "fltr" THEN "EFLTR" ELSE "OK"
                v2  == [n.vsi EXCEPT !.fltr = (f # "fltr"), !.napi = TRUE]
            IN  [err |-> err, vsi |-> v2, rec |-> r2]

\* ------------------------------------------------------ ice_sf_dev_remove

\* ice_sf_dev_remove runs in three steps, in the order of the code:
\* ice_vsi_close, then ice_vsi_decfg, then everything to do with the netdev
\* and the devlink objects.
remove_netdev(v) ==
    [v EXCEPT !.nd = "none", !.registered = FALSE,
              !.netdev = FALSE, !.allocd = FALSE]

remove_devlink(r) ==
    [r EXCEPT !.dlport  = IF @ = "reg" THEN "unreg" ELSE "bad_unreg",
              !.devlink = "freed"]

\* ------------------------------------------------ device registration layer

\* auxiliary_device_init: bind the record's static attributes; it fails only
\* on a malformed record and then leaves the record as it was
auxiliary_device_init(r, f) ==
    IF f = "init"
    THEN [err |-> "EINVAL", rec |-> [r EXCEPT !.calls = Append(@, "init_err")]]
    ELSE [err |-> "OK",
          rec |-> [r EXCEPT !.st = "Initialized", !.calls = Append(@, "init")]]

\* auxiliary_device_add: publish the record; the SF driver is registered, so
\* publishing runs ice_sf_dev_probe, and a probe error is the error of add
\* (the record is then not left published).
auxiliary_device_add(v, r, f, pf) ==
    IF f = "add"
    THEN [err |-> "EADD", vsi |-> v,
          rec |-> [r EXCEPT !.addErr = "EADD", !.calls = Append(@, "add_err")]]
    ELSE LET pr == ice_sf_dev_probe(v, r, f, pf)
         IN  IF pr.err # "OK"
             THEN [err |-> pr.err, vsi |-> pr.vsi,
                   rec |-> [pr.rec EXCEPT !.addErr = pr.err, !.nDel = @ + 1,
                                          !.calls = Append(@, "add_err")]]
             ELSE [err |-> "OK", vsi |-> pr.vsi,
                   rec |-> [pr.rec EXCEPT !.st = "Published",
                                          !.calls = Append(@, "add")]]

\* auxiliary_device_uninit: put_device; the release callback becomes due
auxiliary_device_uninit(r) ==
    [r EXCEPT !.nUninit = @ + 1, !.pend = TRUE, !.calls = Append(@, "uninit")]

\* auxiliary_device_delete, once the driver's remove has run
auxiliary_device_delete(r) ==
    [r EXCEPT !.nDel = @ + 1, !.st = "Unpublished", !.calls = Append(@, "delete")]

\* ------------------------------------------------------------ the caller

\* The port's activation / deactivation request sets dyn_port->active once
\* ice_sf_eth_activate returned 0, and clears it after ice_sf_eth_deactivate.
set_active(p, b) == active' = [active EXCEPT ![p] = b]

\* ---------------------------------------------------- ice_sf_eth_activate

\* activate_body with dyn_port->sf_dev assigned before auxiliary_device_add
\* instead of after it: a failed add then leaves the pointer set.
activate_body_early_set(p, i, v, f, pf) ==
    IF f = "kzalloc"
    THEN [next |-> "xa_erase", err |-> "ENOMEM", new |-> << >>,
          vsi |-> v, set |-> FALSE]
    ELSE
    LET r0 == NewRec(p, i)
    IN  IF f = "init"
        THEN [next |-> "sf_dev_free", err |-> "EINVAL",
              new |-> <<auxiliary_device_init(r0, f).rec>>,
              vsi |-> v, set |-> FALSE]
        ELSE
        LET a == auxiliary_device_add(v, auxiliary_device_init(r0, f).rec, f, pf)
        IN  [next |-> IF a.err # "OK" THEN "aux_dev_uninit" ELSE "idle",
             err |-> a.err, new |-> <<a.rec>>, vsi |-> a.vsi, set |-> TRUE]

\* activate_body with a failed auxiliary_device_add sent to sf_dev_free, as a
\* failed auxiliary_device_init is: auxiliary_device_uninit is skipped.
activate_body_no_uninit(p, i, v, f, pf) ==
    IF f = "kzalloc"
    THEN [next |-> "xa_erase", err |-> "ENOMEM", new |-> << >>,
          vsi |-> v, set |-> FALSE]
    ELSE
    LET r0 == NewRec(p, i)
    IN  IF f = "init"
        THEN [next |-> "sf_dev_free", err |-> "EINVAL",
              new |-> <<auxiliary_device_init(r0, f).rec>>,
              vsi |-> v, set |-> FALSE]
        ELSE
        LET a == auxiliary_device_add(v, auxiliary_device_init(r0, f).rec, f, pf)
        IN  IF a.err # "OK"
            THEN [next |-> "sf_dev_free", err |-> a.err, new |-> <<a.rec>>,
                  vsi |-> a.vsi, set |-> FALSE]
            ELSE [next |-> "idle", err |-> "OK", new |-> <<a.rec>>,
                  vsi |-> a.vsi, set |-> TRUE]

\* ice_sf_eth_activate from kzalloc to "return 0" or to the goto, for port p
\* holding id i on VSI v.  Result: the label to continue at ("idle" after
\* return 0), err, the record if one was allocated, the VSI, and whether
\* dyn_port->sf_dev was set.
activate_body(p, i, v, f, pf) ==
    IF f = "kzalloc"
    THEN [next |-> "xa_erase", err |-> "ENOMEM", new |-> << >>,
          vsi |-> v, set |-> FALSE]
    ELSE
    LET r0 == NewRec(p, i)
    IN  IF f = "init"
        THEN [next |-> "sf_dev_free", err |-> "EINVAL",
              new |-> <<auxiliary_device_init(r0, f).rec>>,
              vsi |-> v, set |-> FALSE]
        ELSE
        LET a == auxiliary_device_add(v, auxiliary_device_init(r0, f).rec, f, pf)
        IN  IF a.err # "OK"
            THEN [next |-> "aux_dev_uninit", err |-> a.err, new |-> <<a.rec>>,
                  vsi |-> a.vsi, set |-> FALSE]
            ELSE [next |-> "idle", err |-> "OK", new |-> <<a.rec>>,
                  vsi |-> a.vsi, set |-> TRUE]

\* records allocated so far plus those the calls in flight will allocate
Budget == Len(rec) + Cardinality({q \in Ports : pc[q] = "kzalloc"})

\* ActivateAlloc with the record allocated before the result of xa_alloc is
\* looked at: a call the allocator refuses leaves a record behind.
ActivateAlloc_alloc_first(p, M) ==
    /\ pc[p] = "idle"
    /\ ~active[p]
    /\ Budget < M
    /\ \E nomem \in BOOLEAN :
         LET i == IF nomem THEN 0 ELSE xa_alloc(xa)
         IN  IF i = 0
             THEN /\ last' = [last EXCEPT ![p] =
                        [op |-> "activate", fault |-> "xa_alloc",
                         ret |-> IF nomem THEN "ENOMEM" ELSE "EBUSY",
                         pre |-> vsi[p]]]
                  /\ rec' = rec \o <<NewRec(p, 0)>>
                  /\ UNCHANGED <<xa, pc, loc>>
             ELSE /\ xa' = xa \cup {i}
                  /\ pc' = [pc EXCEPT ![p] = "kzalloc"]
                  /\ loc' = [loc EXCEPT ![p] = [LocInit EXCEPT !.id = i, !.pre = vsi[p]]]
                  /\ UNCHANGED <<rec, last>>
    /\ UNCHANGED <<vsi, sf_dev, active>>

\* Entry of ice_sf_eth_activate on an inactive port: xa_alloc.
\* The caller (the port's activation request) only calls it on an inactive port.
\* xa_alloc fails with -EBUSY when the pool is exhausted and with -ENOMEM when
\* it cannot get memory; the call then returns at once.  M bounds the records
\* a run allocates, so it bounds the calls that get an id.
ActivateAlloc(p, M) ==
    /\ pc[p] = "idle"
    /\ ~active[p]
    /\ \E nomem \in BOOLEAN :
         LET i == IF nomem THEN 0 ELSE xa_alloc(xa)
         IN  IF i = 0
             THEN /\ last' = [last EXCEPT ![p] =
                        [op |-> "activate", fault |-> "xa_alloc",
                         ret |-> IF nomem THEN "ENOMEM" ELSE "EBUSY",
                         pre |-> vsi[p]]]
                  /\ UNCHANGED <<xa, pc, loc>>
             ELSE /\ Budget < M
                  /\ xa' = xa \cup {i}
                  /\ pc' = [pc EXCEPT ![p] = "kzalloc"]
                  /\ loc' = [loc EXCEPT ![p] = [LocInit EXCEPT !.id = i, !.pre = vsi[p]]]
                  /\ UNCHANGED last
    /\ UNCHANGED <<rec, vsi, sf_dev, active>>

\* kzalloc, auxiliary_device_init, auxiliary_device_add
ActivateAdd(p, F, PF) ==
    /\ pc[p] = "kzalloc"
    /\ \E f \in F, pf \in PF :
         LET b == activate_body(p, loc[p].id, vsi[p], f, pf)
             h == IF b.new = << >> THEN NULL ELSE Len(rec) + 1
         IN  /\ rec' = rec \o b.new
             /\ vsi' = [vsi EXCEPT ![p] = b.vsi]
             /\ sf_dev' = [sf_dev EXCEPT ![p] = IF b.set THEN h ELSE @]
             /\ pc' = [pc EXCEPT ![p] = b.next]
             /\ IF b.next = "idle"
                THEN /\ set_active(p, TRUE)
                     /\ loc' = [loc EXCEPT ![p] = LocInit]
                     /\ last' = [last EXCEPT ![p] =
                           [op |-> "activate", fault |-> f, ret |-> "OK",
                            pre |-> loc[p].pre]]
                ELSE /\ loc' = [loc EXCEPT ![p] =
                           [@ EXCEPT !.sf_dev = h, !.err = b.err, !.fault = f]]
                     /\ UNCHANGED <<active, last>>
    /\ UNCHANGED xa

\* aux_dev_uninit: auxiliary_device_uninit(&sf_dev->adev)
ActivateUninit(p) ==
    /\ pc[p] = "aux_dev_uninit"
    /\ rec' = [rec EXCEPT ![loc[p].sf_dev] = auxiliary_device_uninit(@)]
    /\ pc' = [pc EXCEPT ![p] = "sf_dev_free"]
    /\ UNCHANGED <<xa, vsi, sf_dev, active, loc, last>>

\* sf_dev_free: kfree(sf_dev)
ActivateFree(p) ==
    /\ pc[p] = "sf_dev_free"
    /\ rec' = [rec EXCEPT ![loc[p].sf_dev].nFree = @ + 1]
    /\ pc' = [pc EXCEPT ![p] = "xa_erase"]
    /\ UNCHANGED <<xa, vsi, sf_dev, active, loc, last>>

\* xa_erase: xa_erase(&ice_sf_aux_id, id); return err
ActivateErase(p) ==
    /\ pc[p] = "xa_erase"
    /\ xa' = xa \ {loc[p].id}
    /\ rec' = IF loc[p].sf_dev = NULL THEN rec
              ELSE [rec EXCEPT ![loc[p].sf_dev].nErase = @ + 1]
    /\ pc' = [pc EXCEPT ![p] = "idle"]
    /\ last' = [last EXCEPT ![p] =
          [op |-> "activate", fault |-> loc[p].fault, ret |-> loc[p].err,
           pre |-> loc[p].pre]]
    /\ loc' = [loc EXCEPT ![p] = LocInit]
    /\ UNCHANGED <<vsi, sf_dev, active>>

\* ----------------------------------------------------- ice_sf_dev_release

\* The id the release callback reads from adev->id: the record's id while the
\* record's memory is live; any value once the memory has been freed.
ReleaseIds(r) == IF rec[r].nFree = 0 THEN {rec[r].id} ELSE Ids

\* The device model fires the release callback some time after the last
\* reference was dropped: xa_erase(&ice_sf_aux_id, adev->id); kfree(sf_dev).
ice_sf_dev_release(r) ==
    /\ rec[r].pend /\ ~rec[r].released
    /\ \E i \in ReleaseIds(r) :
         /\ xa' = xa \ {i}
         /\ rec' = [rec EXCEPT ![r] =
               [@ EXCEPT !.released = TRUE, !.nErase = @ + 1, !.nFree = @ + 1]]
    /\ UNCHANGED <<vsi, sf_dev, active, pc, loc, last>>

\* ------------------------------------------------------------- sfnum_show

\* devlink_port.attrs.pci_sf.sf of the dynamic ports: the subfunction number
\* each port was created with.  It is an attribute of the port, fixed before
\* the port is ever activated, and any number the creation request chose.
SfNums    == 0..MaxId
PortAttrs == [Ports -> SfNums]

\* sfnum_show on the device of record r, the ports' attributes being attrs:
\* the number printed is sf_dev->dyn_port->devlink_port.attrs.pci_sf.sf
sfnum_show(attrs, r) == attrs[rec[r].port]

\* -------------------------------------------------- ice_sf_eth_deactivate

\* ice_sf_eth_deactivate without its "if (sf_dev)" test: delete and the
\* driver's remove are entered whether or not a record is attached.
ice_sf_eth_deactivate_noguard(p) ==
    /\ pc[p] = "idle"
    /\ vsi' = [vsi EXCEPT ![p] = ice_vsi_close(@)]
    /\ pc' = [pc EXCEPT ![p] = "rm_vsi_decfg"]
    /\ UNCHANGED <<xa, rec, sf_dev, active, loc, last>>

\* Entry of ice_sf_eth_deactivate.  With a record attached,
\* auxiliary_device_delete unbinds the driver, which runs ice_sf_dev_remove:
\* its first call is ice_vsi_close.  Without one nothing is issued and the
\* call returns (the caller then clears the port's active flag).
ice_sf_eth_deactivate(p) ==
    /\ pc[p] = "idle"
    /\ IF sf_dev[p] # NULL
       THEN /\ vsi' = [vsi EXCEPT ![p] = ice_vsi_close(@)]
            /\ pc' = [pc EXCEPT ![p] = "rm_vsi_decfg"]
            /\ UNCHANGED <<sf_dev, active, last>>
       ELSE /\ sf_dev' = [sf_dev EXCEPT ![p] = NULL]
            /\ set_active(p, FALSE)
            /\ last' = [last EXCEPT ![p] =
                  [op |-> "deactivate_inactive", fault |-> "none", ret |-> "OK",
                   pre |-> vsi[p]]]
            /\ UNCHANGED <<vsi, pc>>
    /\ UNCHANGED <<xa, rec, loc>>

\* ice_sf_dev_remove: ice_vsi_decfg(vsi)
RemoveDecfg(p) ==
    /\ pc[p] = "rm_vsi_decfg"
    /\ vsi' = [vsi EXCEPT ![p] = ice_vsi_decfg(@)]
    /\ rec' = [rec EXCEPT ![sf_dev[p]].nDecfg = @ + 1]
    /\ pc' = [pc EXCEPT ![p] = "rm_netdev"]
    /\ UNCHANGED <<xa, sf_dev, active, loc, last>>

\* ice_sf_dev_remove from unregister_netdev to devlink_free; then
\* auxiliary_device_delete returns, auxiliary_device_uninit, and
\* dyn_port->sf_dev = NULL (the caller then clears the port's active flag).
RemoveNetdev(p) ==
    /\ pc[p] = "rm_netdev"
    /\ vsi' = [vsi EXCEPT ![p] = remove_netdev(@)]
    /\ rec' = [rec EXCEPT ![sf_dev[p]] =
          auxiliary_device_uninit(auxiliary_device_delete(remove_devlink(@)))]
    /\ sf_dev' = [sf_dev EXCEPT ![p] = NULL]
    /\ set_active(p, FALSE)
    /\ pc' = [pc EXCEPT ![p] = "idle"]
    /\ last' = [last EXCEPT ![p] =
          [op |-> "deactivate", fault |-> "none", ret |-> "OK", pre |-> VsiInit]]
    /\ UNCHANGED <<xa, loc>>

\* ------------------------------------------------------------ the system

\* One port at a time, every fault: the unwinding of each stage.
SeqPorts == {1}

Next ==
    \/ \E p \in SeqPorts : ActivateAlloc(p, MaxSeqRec)
    \/ \E p \in SeqPorts : ActivateAdd(p, ActFaults, BOOLEAN)
    \/ \E p \in SeqPorts : ActivateUninit(p)
    \/ \E p \in SeqPorts : ActivateFree(p)
    \/ \E p \in SeqPorts : ActivateErase(p)
    \/ \E p \in SeqPorts : ice_sf_eth_deactivate(p)
    \/ \E p \in SeqPorts : RemoveDecfg(p)
    \/ \E p \in SeqPorts : RemoveNetdev(p)
    \/ \E r \in 1..Len(rec) : ice_sf_dev_release(r)

Spec == Init /\ [][Next]_vars

\* Calls on all ports in parallel, with the faults that reach the allocator.
NextRace ==
    \/ \E p \in Ports : ActivateAlloc(p, MaxRec)
    \/ \E p \in Ports : ActivateAdd(p, RaceFaults, {FALSE})
    \/ \E p \in Ports : ActivateUninit(p)
    \/ \E p \in Ports : ActivateFree(p)
    \/ \E p \in Ports : ActivateErase(p)
    \/ \E p \in Ports : ice_sf_eth_deactivate(p)
    \/ \E p \in Ports : RemoveDecfg(p)
    \/ \E p \in Ports : RemoveNetdev(p)
    \/ \E r \in 1..Len(rec) : ice_sf_dev_release(r)

SpecRace == Init /\ [][NextRace]_vars

\* ------------------------------------------------------------ properties

Recs      == 1..Len(rec)
RecsOf(p) == {r \in Recs : rec[r].port = p}
\* the record of the port's most recent kzalloc
LastRecOf(p) == CHOOSE r \in RecsOf(p) : \A q \in RecsOf(p) : q <= r

\* ice_sf_eth_activate has returned on p, and it was the last call there
Returned(p)  == pc[p] = "idle" /\ last[p].op = "activate"
ActFailed(p) == Returned(p) /\ last[p].ret # "OK"

\* a live record: one that was published (it may since have been unpublished),
\* whose memory is not freed and whose release has not yet run
Live(r) ==
    /\ rec[r].st \in {"Published", "Unpublished"}
    /\ rec[r].nFree = 0
    /\ ~rec[r].released

\* no release callback is outstanding for the record
Settled(r) == rec[r].pend => rec[r].released

\* the record is still being unwound by the activation that created it
InRollback(r) == \E p \in Ports : pc[p] # "idle" /\ loc[p].sf_dev = r

\* C1 - Unwind symmetry: once an Activate that was made to fail at one of its
\* stages 1..5 has returned (and the release callback it made due has run),
\* the system is as it was before the call: no record attached to the port,
\* the VSI unchanged (no interface, no configured resources), the record it
\* allocated freed exactly once with nothing it registered left behind, and
\* the id it reserved no longer reserved for it.
C1_UnwindSymmetry ==
    \A p \in Ports :
        (ActFailed(p) /\ last[p].fault # "fltr") =>
            /\ sf_dev[p] = NULL
            /\ ~active[p]
            /\ vsi[p] = last[p].pre
            /\ (last[p].fault \notin {"xa_alloc", "kzalloc"} /\ Settled(LastRecOf(p))) =>
                   LET r == rec[LastRecOf(p)]
                   IN  /\ r.nFree = 1
                       /\ r.devlink \in {"none", "freed"}
                       /\ r.dlport \in {"none", "unreg"}
                       /\ (r.id \in xa => \E q \in Recs : Live(q) /\ rec[q].id = r.id)

\* C2 - When add fails after init succeeded, the record is uninit'ed once,
\* freed exactly once and its id released exactly once, counting the rollback
\* of ice_sf_eth_activate and the release callback together: never twice, and
\* once both have run, exactly once.
C2_AddFailFreedOnce ==
    \A r \in Recs :
        rec[r].addErr = "EADD" =>
            /\ rec[r].nUninit <= 1 /\ rec[r].nFree <= 1 /\ rec[r].nErase <= 1
            /\ (rec[r].released /\ ~InRollback(r)) =>
                   (rec[r].nUninit = 1 /\ rec[r].nFree = 1 /\ rec[r].nErase = 1)

\* C3 - Id uniqueness: in every state no two live records carry the same id.
C3_LiveIdsUnique ==
    \A r1, r2 \in Recs :
        (r1 # r2 /\ Live(r1) /\ Live(r2)) => rec[r1].id # rec[r2].id

\* a record that Deactivate has unpublished and whose release has not yet run
Stale(r) == rec[r].st = "Unpublished" /\ ~rec[r].released

\* the step of port p that is xa_alloc handing out an id
Reserves(p) == pc[p] = "idle" /\ pc'[p] = "kzalloc"

\* the step of port p belongs to its Deactivate
Deactivates(p) ==
    \/ pc[p] \in {"rm_vsi_decfg", "rm_netdev"}
    \/ pc'[p] \in {"rm_vsi_decfg", "rm_netdev"}
    \/ (last'[p] # last[p] /\ last'[p].op = "deactivate_inactive")

\* C4 - Id non-reuse before release: no step of Deactivate changes the
\* allocator, and xa_alloc never hands out the id of a record that has been
\* unpublished and not yet released.
C4_NoReuseBeforeRelease ==
    [][\A p \in Ports :
          /\ (Deactivates(p) /\ pc'[p] # pc[p]) => xa' = xa
          /\ Reserves(p) => \A r \in Recs : Stale(r) => rec[r].id # loc'[p].id]_vars

\* C5 - Degraded activation: an Activate in which only the installation of the
\* default filter failed returns success and leaves the port active, with its
\* record, its registered interface and its configured VSI.
C5_DegradedActivation ==
    \A p \in Ports :
        (Returned(p) /\ last[p].fault = "fltr") =>
            /\ last[p].ret = "OK"
            /\ active[p] /\ sf_dev[p] # NULL
            /\ vsi[p].cfg /\ vsi[p].nd = "reg" /\ vsi[p].napi

\* C6 - Bind failure: after an Activate in which the netdev allocation or
\* registration failed has returned, reclaim ran exactly once, the record was
\* unpublished and uninit'ed exactly once each, its id was released exactly
\* once (never twice, and once when the release callback has run), the port is
\* inactive with no record, and ENOMEM (the bind error of ice_sf_cfg_netdev)
\* is what the caller got.
C6_BindFailure ==
    \A p \in Ports :
        (Returned(p) /\ last[p].fault \in {"netdev_alloc", "netdev_register"}) =>
            LET r == rec[LastRecOf(p)]
            IN  /\ r.nDecfg = 1
                /\ r.nDel = 1
                /\ r.nUninit = 1
                /\ r.nErase <= 1
                /\ Settled(LastRecOf(p)) => r.nErase = 1
                /\ ~active[p] /\ sf_dev[p] = NULL
                /\ last[p].ret = "ENOMEM"

\* port q holds id i for an activation that has not failed: in flight before
\* any error, or completed with its record attached
Holds(q, i) ==
    \/ pc[q] = "kzalloc" /\ loc[q].id = i
    \/ sf_dev[q] # NULL /\ rec[sf_dev[q]].id = i

\* C7 - Smallest-free allocation: every id xa_alloc hands out is at least 1, is
\* the smallest id not reserved at the time of the call, and is held by no
\* other port's activation, so that the ids of activations that succeed side
\* by side are pairwise distinct.
C7_SmallestFree ==
    [][\A p \in Ports :
          Reserves(p) =>
              /\ loc'[p].id >= 1
              /\ loc'[p].id \notin xa
              /\ \A i \in 1..(loc'[p].id - 1) : i \in xa
              /\ \A q \in Ports \ {p} : ~Holds(q, loc'[p].id)]_vars

\* C8 - Teardown order: while Deactivate is tearing the port down, poll
\* servicing is already off, and the interface is never still registered once
\* its VSI has been de-configured.
C8_TeardownOrder ==
    \A p \in Ports :
        pc[p] \in {"rm_vsi_decfg", "rm_netdev"} =>
            /\ ~vsi[p].napi
            /\ vsi[p].nd = "reg" => vsi[p].cfg

\* C9 - Idempotent teardown: ice_sf_eth_deactivate on a port with no record
\* attached issues nothing and changes nothing: allocator, records, VSI, the
\* port's record pointer and flag, and the call returns at once.
C9_DeactivateInactiveNoop ==
    [][\A p \in Ports :
          (ice_sf_eth_deactivate(p) /\ sf_dev[p] = NULL) =>
              UNCHANGED <<xa, rec, vsi, sf_dev, active, pc, loc>>]_vars

\* a Deactivate has just returned on a port that had no record, after an
\* earlier Deactivate had unpublished the port's record
C9_Witness ==
    \E p \in Ports :
        /\ last[p].op = "deactivate_inactive"
        /\ \E r \in RecsOf(p) : rec[r].st = "Unpublished" /\ rec[r].nDel = 1

\* C10 - Port invariant: between calls, dyn_port->sf_dev is non-null exactly
\* when dyn_port->active is set.
C10_PortInvariant ==
    \A p \in Ports : pc[p] = "idle" => ((sf_dev[p] # NULL) <=> active[p])

\* a port that an Activate has left active with its record attached, and one
\* that a Deactivate has left inactive without
C10_Witness ==
    /\ \E p \in Ports : Returned(p) /\ active[p] /\ sf_dev[p] # NULL
                        /\ rec[sf_dev[p]].st = "Published"


\* C11 - The sfnum attribute of a published record always reads as the
\* record's own id (adev.id, drawn from ice_sf_aux_id at activation), whatever
\* subfunction numbers the ports carry and whatever the allocator holds.
C11_SfnumIsRecordId ==
    \A attrs \in PortAttrs :
        \A r \in Recs :
            rec[r].st = "Published" => sfnum_show(attrs, r) = rec[r].id


\* C12 - Pool exhaustion: a call of ice_sf_eth_activate whose xa_alloc fails
\* returns the error of xa_alloc at once and touches nothing else: the
\* allocator, the records, the port's VSI, its record pointer and its flag are
\* as before, and the call is over.
C12_PoolExhaustion ==
    [][\A p \in Ports :
          (last'[p] # last[p] /\ last'[p].fault = "xa_alloc") =>
              /\ last'[p].op = "activate"
              /\ last'[p].ret \in {"EBUSY", "ENOMEM"}
              /\ pc'[p] = "idle"
              /\ UNCHANGED <<xa, rec, vsi, sf_dev, active, pc, loc>>]_vars

\* an Activate has just been refused on a port because every id is reserved
C12_Witness ==
    \E p \in Ports :
        /\ Returned(p) /\ last[p].fault = "xa_alloc" /\ last[p].ret = "EBUSY"
        /\ Ids \subseteq xa


\* the call of ice_sf_eth_activate on p, in flight or the last one returned,
\* is one in which step f was made to fail
FailedAt(p, f) ==
    \/ pc[p] \in {"aux_dev_uninit", "sf_dev_free", "xa_erase"} /\ loc[p].fault = f
    \/ Returned(p) /\ last[p].fault = f

\* C13 - Bind contract: when register_netdev fails inside ice_sf_cfg_netdev,
\* the net_device is freed and vsi->netdev is cleared before the error is
\* returned: from the failure on, no allocated or registered net_device is
\* left on the VSI, and the bind returned an error.
C13_BindFailureFreesNetdev ==
    \A p \in Ports :
        FailedAt(p, "netdev_register") =>
            /\ vsi[p].nd = "none"
            /\ ~vsi[p].netdev
            /\ (IF Returned(p) THEN last[p].ret ELSE loc[p].err) # "OK"

\* register_netdev has just failed in the probe of p's record, and the
\* activation is unwinding
C13_Witness ==
    \E p \in Ports :
        /\ pc[p] = "aux_dev_uninit" /\ loc[p].fault = "netdev_register"
        /\ rec[loc[p].sf_dev].nDecfg = 1


\* the complete histories of registration-layer calls on one record
LegalCalls ==
    { <<"init_err">>,
      <<"init", "add_err", "uninit">>,
      <<"init", "add", "delete", "uninit">> }

IsPrefix(s, t) == Len(s) <= Len(t) /\ \A k \in 1..Len(s) : s[k] = t[k]

\* the record is attached to a port (Activate returned 0, Deactivate has not
\* finished with it)
Attached(r) == \E p \in Ports : sf_dev[p] = r

\* C14 - Registration pairing: the calls made on a record are, in order, init,
\* add, delete, uninit, cut short after a failed init and without the delete
\* after a failed add.  So uninit is called once for each successful init (and
\* not after a failed one), delete once for each successful add and never
\* without one, delete before uninit; and the release callback only runs on a
\* record that was uninit'ed.  Between calls the history of a record that is
\* not attached to a port is complete, that of an attached one is init, add.
C14_RegistrationPairing ==
    \A r \in Recs :
        /\ \E t \in LegalCalls : IsPrefix(rec[r].calls, t)
        /\ Attached(r) => rec[r].calls = <<"init", "add">>
        /\ (~Attached(r) /\ ~InRollback(r)) => rec[r].calls \in LegalCalls
        /\ rec[r].released => rec[r].nUninit = 1
        /\ rec[r].st = "Published"   => rec[r].calls = <<"init", "add">>
        /\ rec[r].st = "Unpublished" => rec[r].calls[3] = "delete"

\* one record has been through the whole cycle and been released, and one was
\* uninit'ed after its add failed
C14_Witness ==
    /\ \E r \in Recs : rec[r].calls = <<"init", "add", "delete", "uninit">>
                       /\ rec[r].released
    /\ \E r \in Recs : rec[r].calls = <<"init", "add_err", "uninit">>


\* the record exists: it was allocated, its memory has not been freed and its
\* release callback has not run
Exists(r) == rec[r].nFree = 0 /\ ~rec[r].released

\* no call of ice_sf_eth_activate is between its xa_alloc and its return
NoActivateInFlight ==
    \A p \in Ports : pc[p] \notin {"kzalloc", "aux_dev_uninit", "sf_dev_free", "xa_erase"}

\* C15 - Allocator occupancy tracks the records: whenever no Activate is in
\* flight, the reserved ids are exactly the ids of the records that exist and
\* have not been released: no id is reserved without a record, and the id of
\* no existing record is free.
C15_OccupancyTracksRecords ==
    NoActivateInFlight => xa = {rec[r].id : r \in {q \in Recs : Exists(q)}}


\* the step is the release callback of record r
Releases(r) == ~rec[r].released /\ rec'[r].released

\* C16 - Frame of the release callback: ice_sf_dev_release removes the id of
\* its record from the allocator and frees the record's memory, and nothing
\* else: the ports (flag, record pointer, VSI with its interface), the calls
\* in flight and every other record are unchanged; and it runs only on a
\* record on which uninit was called.
C16_ReleaseFrame ==
    [][\A r \in Recs :
          Releases(r) =>
              /\ rec[r].nUninit >= 1
              /\ xa' = xa \ {rec[r].id}
              /\ rec[r].nFree = 0 /\ rec'[r].nFree = 1
              /\ \A q \in Recs \ {r} : rec'[q] = rec[q]
              /\ UNCHANGED <<vsi, sf_dev, active, pc, loc, last>>]_vars


\* C17 - No leaked management registration in probe: once ice_sf_dev_probe has
\* returned an error for a record (its ice_vsi_cfg or its ice_sf_cfg_netdev
\* failed), the devlink instance it registered is unregistered and freed
\* again, and so is the devlink port if it created one.
C17_ProbeErrorNoLeak ==
    \A r \in Recs :
        rec[r].addErr \in {"EVSICFG", "ENOMEM"} =>
            /\ rec[r].devlink \in {"none", "freed"}
            /\ rec[r].dlport \in {"none", "unreg"}


\* C18 - Remove undoes only what probe did: after ice_sf_dev_remove has run
\* for a record, the devlink instance that the probe registered is
\* unregistered and freed, and devlink_port_unregister was called on the
\* record's devlink port only if ice_devlink_create_sf_dev_port had
\* registered it: a port the probe failed to create is left alone.
C18_RemoveUndoesOnlyProbe ==
    \A r \in Recs :
        rec[r].st = "Unpublished" =>
            /\ rec[r].devlink = "freed"
            /\ rec[r].dlport \in {"none", "unreg"}


\* C19 - The netdev state flags agree with the interface handle: once
\* ice_sf_cfg_netdev has returned, with success or with an error, and once
\* ice_sf_dev_remove has returned, ICE_VSI_NETDEV_ALLOCD is set exactly when
\* vsi->netdev is non-null, and ICE_VSI_NETDEV_REGISTERED is set only when
\* ICE_VSI_NETDEV_ALLOCD is.
C19_NetdevFlagsConsistent ==
    \A p \in Ports :
        /\ vsi[p].allocd <=> vsi[p].netdev
        /\ vsi[p].registered => vsi[p].allocd

====
